---- MODULE Spec2Model ----
(***************************************************************************)
(* Model of pcstac.client.PCClient (src/pcstac/pcstac/client.py): the      *)
(* collection-link injection and visibility-filtering pipeline, its        *)
(* single-key collections cache, and the get_collection / get_item /       *)
(* _search_base overrides.                                                 *)
(*                                                                         *)
(* Python dicts are TLA+ functions on strings: a missing key is a string   *)
(* outside DOMAIN, so dict.get(k, default) and dict.pop(k, None) are       *)
(* modelled by what they do.  Strings built with f-strings and urljoin are *)
(* tuples of their pieces.                                                 *)
(***************************************************************************)
EXTENDS Integers, Sequences, FiniteSets, TLC

VARIABLES
    client,                     \* the PCClient object: its attributes
    COLLECTION_RENDER_CONFIG,   \* dict: collection id -> render config
    catalog,                    \* backend: stored collection records, in backend order
    items,                      \* backend: stored item records, in backend order
    collections_endpoint_cache, \* dict: cache key -> Collections response
    pc,                         \* per request slot: position of the coroutine
    local,                      \* per request slot: locals of the suspended coroutine
    response,                   \* outcome of the call that completed last
    twinCache,                  \* the cache of the twin deployment (hidden collections absent)
    twinResponse,               \* outcome of the same call in the twin deployment
    fetches,                    \* number of backend list fetches invoked so far
    mutations,                  \* number of backend mutations so far
    overlapped,                 \* an all_collections call started while another was in flight
    failed,                     \* an all_collections call has failed
    returned,                   \* identities of the objects all_collections calls returned
    arg,                        \* input of the last pure-function application
    out                         \* its output

vars == <<client, COLLECTION_RENDER_CONFIG, catalog, items, collections_endpoint_cache,
          pc, local, response, twinCache, twinResponse, fetches, mutations,
          overlapped, failed, returned, arg, out>>

\* ---------------------------------------------------------------- bounds
NumProcs == 2
MaxFetches == 2
MaxMutations == 1
MaxTilePos == 0

Procs == 1..NumProcs

\* ------------------------------------------------------------ vocabulary
Ids == {"a", "hidden-col", "b", "c"}
ItemIds == {"i1"}
Kwargs == {"req1", "req2"}
CACHE_KEY == "/collections"

\* ------------------------------------------------------- dict primitives
EmptyDict == [k \in {} |-> TRUE]

\* d.get(k, default)
Get(d, k, default) == IF k \in DOMAIN d THEN d[k] ELSE default

\* d[k] = v
Put(d, k, v) == [x \in DOMAIN d \cup {k} |-> IF x = k THEN v ELSE d[x]]

\* d.pop(k, None), the dict that remains
Pop(d, k) == [x \in DOMAIN d \ {k} |-> d[x]]

\* seq.insert(pos, e) with Python's clamping of pos to len(seq)
InsertAt(seq, pos, e) ==
    LET p == IF pos > Len(seq) THEN Len(seq) ELSE pos
    IN  SubSeq(seq, 1, p) \o <<e>> \o SubSeq(seq, p + 1, Len(seq))

\* ---------------------------------------------------- outcomes of a call
\* A call either returns a value or raises; an exception carries its class
\* and its message.
Ok(v) == [kind |-> "ok", value |-> v]

Raise(class, message) == [kind |-> class, message |-> message]

NotFoundError(message) == Raise("NotFoundError", message)

\* What the external tile-link builder does on one call: whether it succeeds
\* and where in `links` it puts its link.
TileBehaviours == [ok : BOOLEAN, pos : 0..MaxTilePos]

TileError == Raise("TileError", <<"tile-link builder failed">>)

BackendError == Raise("BackendError", <<"backend unavailable">>)

\* ------------------------------------------------------------------ links
Link(rel, href, title, type) ==
    [rel |-> rel, href |-> href, title |-> title, type |-> type]

DATASET_URL == <<"https://planetarycomputer.microsoft.com", "dataset">>

\* urllib.parse.urljoin(base, url) for a relative url of one path segment:
\* the last path segment of base is replaced by url (base has no trailing
\* slash); an empty url gives base.
urljoin(base, url) ==
    IF url = "" THEN base ELSE SubSeq(base, 1, Len(base) - 1) \o <<url>>

DescribedByLink(id) ==
    Link("describedby", urljoin(DATASET_URL, id),
         "Human readable dataset overview and reference", "text/html")

TileLink(id) ==
    Link("tiles", <<"https://planetarycomputer.microsoft.com", "tiles", id>>,
         "Tile links", "application/json")

SelfLink(id) ==
    Link("self", <<"https://planetarycomputer.microsoft.com", "collections", id>>,
         "", "application/json")

RootLink ==
    Link("root", <<"https://planetarycomputer.microsoft.com">>,
         "", "application/json")

\* ----------------------------------------------------------- render config
RenderConfig(hidden, collection_links, item_links) ==
    [hidden |-> hidden,
     should_add_collection_links |-> collection_links,
     should_add_item_links |-> item_links]

RenderConfigs == {RenderConfig(h, c, i) : h \in BOOLEAN, c \in BOOLEAN, i \in BOOLEAN}

\* `render_config and render_config.hidden` after COLLECTION_RENDER_CONFIG.get(id)
IsHidden(id) ==
    /\ id \in DOMAIN COLLECTION_RENDER_CONFIG
    /\ COLLECTION_RENDER_CONFIG[id].hidden

\* ----------------------------------------------------------- tile builder
\* TileInfo(collection_id, render_config).inject_collection(collection):
\* inserts its link into the record's links, in place.
TileInfo_inject_collection(collection, tile) ==
    IF "links" \in DOMAIN collection
    THEN [collection EXCEPT !["links"] =
              InsertAt(@, tile.pos, TileLink(collection["id"]))]
    ELSE collection

\* TileInfo(collection_id, render_config).inject_item(item)
TileInfo_inject_item(item, tile) ==
    IF "links" \in DOMAIN item
    THEN [item EXCEPT !["links"] =
              InsertAt(@, tile.pos, TileLink(item["collection"]))]
    ELSE item

\* ---------------------------------------------------------- LinkInjector
\* An assignment in place of the append: the record's links become the new
\* link alone.
AppendToLinks_assign(collection, link) ==
    IF "links" \in DOMAIN collection
    THEN [collection EXCEPT !["links"] = <<link>>]
    ELSE collection

\* An append that first looks for an equal link and adds nothing when there
\* is one.
AppendToLinks_unless_present(collection, link) ==
    IF "links" \in DOMAIN collection
    THEN IF \E i \in 1..Len(collection["links"]) : collection["links"][i] = link
         THEN collection
         ELSE [collection EXCEPT !["links"] = Append(@, link)]
    ELSE collection

\* collection.get("links", []).append(link): the append reaches the record
\* only when the record has a links list; otherwise it lands on the
\* temporary default list.
AppendToLinks(collection, link) ==
    IF "links" \in DOMAIN collection
    THEN [collection EXCEPT !["links"] = Append(@, link)]
    ELSE collection

\* PCClient.inject_collection_links
inject_collection_links(collection, tile) ==
    LET collection_id == Get(collection, "id", "")
        enabled == /\ collection_id \in DOMAIN COLLECTION_RENDER_CONFIG
                   /\ COLLECTION_RENDER_CONFIG[collection_id].should_add_collection_links
    IN  IF enabled /\ ~tile.ok
        THEN TileError
        ELSE LET injected == IF enabled
                             THEN TileInfo_inject_collection(collection, tile)
                             ELSE collection
             IN  Ok(AppendToLinks(injected, DescribedByLink(collection["id"])))

\* inject_item_links that ends as inject_collection_links does, with the
\* describedby link appended.
inject_item_links_describedby(item, tile) ==
    LET collection_id == Get(item, "collection", "")
        enabled == /\ collection_id # ""
                   /\ collection_id \in DOMAIN COLLECTION_RENDER_CONFIG
                   /\ COLLECTION_RENDER_CONFIG[collection_id].should_add_item_links
    IN  IF enabled /\ ~tile.ok
        THEN TileError
        ELSE Ok(AppendToLinks(IF enabled THEN TileInfo_inject_item(item, tile) ELSE item,
                              DescribedByLink(collection_id)))

\* PCClient.inject_item_links
inject_item_links(item, tile) ==
    LET collection_id == Get(item, "collection", "")
        enabled == /\ collection_id # ""
                   /\ collection_id \in DOMAIN COLLECTION_RENDER_CONFIG
                   /\ COLLECTION_RENDER_CONFIG[collection_id].should_add_item_links
    IN  IF enabled /\ ~tile.ok
        THEN TileError
        ELSE Ok(IF enabled THEN TileInfo_inject_item(item, tile) ELSE item)

\* ---------------------------------------------------------------- backend
\* The wrapped catalog engine (CoreCrudClient): it answers from the stored
\* records and builds a fresh response object on every list fetch.
CollectionRecord(id, withLinks) ==
    IF withLinks
    THEN [id |-> id, type |-> "Collection", links |-> <<SelfLink(id), RootLink>>]
    ELSE [id |-> id, type |-> "Collection"]

ItemRecord(item_id, collection_id) ==
    [id |-> item_id, type |-> "Feature", collection |-> collection_id,
     links |-> <<SelfLink(item_id)>>]

StoredIds(cat) == {cat[i]["id"] : i \in 1..Len(cat)}

\* super().all_collections(**kwargs); oid is the identity of the object built
super_all_collections(cat, kwargs, oid) ==
    [oid |-> oid, request |-> kwargs, collections |-> cat, links |-> <<RootLink>>]

\* super().get_collection(id, **kwargs)
super_get_collection(cat, id) ==
    IF id \in StoredIds(cat)
    THEN Ok(CHOOSE c \in {cat[i] : i \in 1..Len(cat)} : c["id"] = id)
    ELSE NotFoundError(<<"Collection ", id, " does not exist.">>)

\* PCSearch(ids=..., collections=..., limit=...): an absent key is no filter
Matches(item, search_request) ==
    /\ "ids" \in DOMAIN search_request => item["id"] \in search_request["ids"]
    /\ "collections" \in DOMAIN search_request =>
           item["collection"] \in search_request["collections"]

\* super()._search_base(search_request, **kwargs)
super_search_base(its, search_request, withContext) ==
    LET matching == SelectSeq(its, LAMBDA i : Matches(i, search_request))
        n == IF Len(matching) < search_request["limit"]
             THEN Len(matching) ELSE search_request["limit"]
        page == [type |-> "FeatureCollection", features |-> SubSeq(matching, 1, n),
                 links |-> <<RootLink>>]
    IN  IF withContext
        THEN Put(page, "context", [returned |-> n, limit |-> search_request["limit"]])
        ELSE page

\* ----------------------------------------------------------- twin catalog
\* The catalog that differs only in that the hidden collections and their
\* items are not stored.
EraseCollections(cat) == SelectSeq(cat, LAMBDA c : ~IsHidden(c["id"]))

EraseItems(its) == SelectSeq(its, LAMBDA i : ~IsHidden(i["collection"]))

EraseRaw(raw) == [raw EXCEPT !["collections"] = EraseCollections(@)]

Diverged == Raise("Diverged", <<"control flow differs">>)

\* ------------------------------------------------------------ the client
\* The conformance-class URIs in use, in Python's ascending string order.
ClassOrder == <<"collections", "core", "fields", "item-search", "query", "sort">>

\* a < b for two conformance-class strings
StrLess(a, b) ==
    \E i, j \in 1..Len(ClassOrder) : ClassOrder[i] = a /\ ClassOrder[j] = b /\ i < j

\* set(seq)
ToSet(seq) == {seq[i] : i \in 1..Len(seq)}

\* sorted(list(S))
RECURSIVE Sorted(_)
Sorted(S) ==
    IF S = {} THEN <<>>
    ELSE LET least == CHOOSE x \in S : \A y \in S \ {x} : StrLess(x, y)
         IN  <<least>> \o Sorted(S \ {least})

\* list.extend over a sequence of lists
RECURSIVE ExtendAll(_, _)
ExtendAll(list, lists) ==
    IF lists = <<>> THEN list
    ELSE ExtendAll(list \o Head(lists), Tail(lists))

\* getattr(extension, "conformance_classes", [])
ExtensionClasses(extension) == Get(extension, "conformance_classes", <<>>)

\* PCClient(...): the attributes the methods read
PCClient(base_conformance_classes, extensions, extra_conformance_classes) ==
    [base_conformance_classes |-> base_conformance_classes,
     extensions |-> extensions,
     extra_conformance_classes |-> extra_conformance_classes]

\* PCClient.create(): the client the application runs with
CreatedClient ==
    PCClient(<<"core", "collections", "item-search">>,
             <<[name |-> "QueryExtension", conformance_classes |-> <<"query">>],
               [name |-> "ContextExtension"]>>,
             <<>>)

\* conformance_classes that extends self.base_conformance_classes itself
\* instead of a copy of it.
conformance_classes_no_copy(self) ==
    LET extended ==
            ExtendAll(self.base_conformance_classes,
                      [i \in 1..Len(self.extensions) |->
                          ExtensionClasses(self.extensions[i])])
                \o self.extra_conformance_classes
    IN  [return |-> Sorted(ToSet(extended)),
         self |-> [self EXCEPT !.base_conformance_classes = extended]]

\* PCClient.conformance_classes: the list returned and the client afterwards
conformance_classes(self) ==
    LET base_conformance_classes ==
            ExtendAll(self.base_conformance_classes,
                      [i \in 1..Len(self.extensions) |->
                          ExtensionClasses(self.extensions[i])])
                \o self.extra_conformance_classes
    IN  [return |-> Sorted(ToSet(base_conformance_classes)),
         self |-> self]

\* landing_page without the assignment of the type.
landing_page_as_is(landing) == Ok(landing)

\* PCClient.landing_page, the part after the awaited base implementation
landing_page(landing) == Ok(Put(landing, "type", "Catalog"))

\* --------------------------------------------------------------- handlers
\* modified_collections that takes any render config for a hidden one
\* (`if render_config:`): configured collections are dropped.
modified_collections_drop_configured(collections, tile) ==
    LET visible == SelectSeq(Get(collections, "collections", <<>>),
                             LAMBDA col : Get(col, "id", "") \notin
                                              DOMAIN COLLECTION_RENDER_CONFIG)
        injected == [i \in 1..Len(visible) |-> inject_collection_links(visible[i], tile)]
    IN  IF \E i \in 1..Len(visible) : injected[i].kind # "ok"
        THEN TileError
        ELSE Ok(Put(collections, "collections",
                    [i \in 1..Len(visible) |-> injected[i].value]))

\* modified_collections without the hidden check: every fetched collection
\* is injected and kept.
modified_collections_keep_hidden(collections, tile) ==
    LET fetched == Get(collections, "collections", <<>>)
        injected == [i \in 1..Len(fetched) |-> inject_collection_links(fetched[i], tile)]
    IN  IF \E i \in 1..Len(fetched) : injected[i].kind # "ok"
        THEN TileError
        ELSE Ok(Put(collections, "collections",
                    [i \in 1..Len(fetched) |-> injected[i].value]))

\* modified_collections that passes every kept collection through
\* inject_collection_links a second time.
modified_collections_inject_twice(collections, tile) ==
    LET visible == SelectSeq(Get(collections, "collections", <<>>),
                             LAMBDA col : ~IsHidden(Get(col, "id", "")))
        once == [i \in 1..Len(visible) |-> inject_collection_links(visible[i], tile)]
        injected == [i \in 1..Len(visible) |->
                        IF once[i].kind = "ok"
                        THEN inject_collection_links(once[i].value, tile)
                        ELSE once[i]]
    IN  IF \E i \in 1..Len(visible) : injected[i].kind # "ok"
        THEN TileError
        ELSE Ok(Put(collections, "collections",
                    [i \in 1..Len(visible) |-> injected[i].value]))

\* PCClient.all_collections, the part after the awaited fetch (the body of
\* `except KeyError`): the processed response, or the failure of injection.
modified_collections(collections, tile) ==
    LET visible == SelectSeq(Get(collections, "collections", <<>>),
                             LAMBDA col : ~IsHidden(Get(col, "id", "")))
        injected == [i \in 1..Len(visible) |-> inject_collection_links(visible[i], tile)]
    IN  IF \E i \in 1..Len(visible) : injected[i].kind # "ok"
        THEN TileError
        ELSE Ok(Put(collections, "collections",
                    [i \in 1..Len(visible) |-> injected[i].value]))

\* get_collection with a bare `raise` in the except clause: the caught
\* exception leaves with the message it came with.
get_collection_reraise(cat, id, tile) ==
    LET try == IF IsHidden(id)
               THEN NotFoundError(<<>>)
               ELSE super_get_collection(cat, id)
    IN  IF try.kind = "NotFoundError"
        THEN try
        ELSE inject_collection_links(try.value, tile)

\* get_collection without the hidden check.
get_collection_unfiltered(cat, id, tile) ==
    LET try == super_get_collection(cat, id)
    IN  IF try.kind = "NotFoundError"
        THEN NotFoundError(<<"No collection with id '", id, "' found!">>)
        ELSE inject_collection_links(try.value, tile)

\* get_collection that answers from the cached listing when it lists the id.
get_collection_cached(cat, id, tile) ==
    LET listed == IF CACHE_KEY \in DOMAIN collections_endpoint_cache
                  THEN collections_endpoint_cache[CACHE_KEY]["collections"]
                  ELSE <<>>
        try == IF IsHidden(id)
               THEN NotFoundError(<<>>)
               ELSE super_get_collection(cat, id)
    IN  IF \E i \in 1..Len(listed) : listed[i]["id"] = id
        THEN Ok(CHOOSE c \in {listed[i] : i \in 1..Len(listed)} : c["id"] = id)
        ELSE IF try.kind = "NotFoundError"
             THEN NotFoundError(<<"No collection with id '", id, "' found!">>)
             ELSE inject_collection_links(try.value, tile)

\* PCClient.get_collection
get_collection(cat, id, tile) ==
    LET try == IF IsHidden(id)
               THEN NotFoundError(<<>>)
               ELSE super_get_collection(cat, id)
    IN  IF try.kind = "NotFoundError"
        THEN NotFoundError(<<"No collection with id '", id, "' found!">>)
        ELSE inject_collection_links(try.value, tile)

\* _search_base without the pop of "context".
search_base_keep_context(its, search_request, tile, withContext) ==
    LET result == super_search_base(its, search_request, withContext)
        features == Get(result, "features", <<>>)
        injected == [i \in 1..Len(features) |-> inject_item_links(features[i], tile)]
    IN  IF \E i \in 1..Len(features) : injected[i].kind # "ok"
        THEN TileError
        ELSE Ok(Put(result, "features",
                    [i \in 1..Len(features) |-> injected[i].value]))

\* PCClient._search_base
search_base(its, search_request, tile, withContext) ==
    LET result == Pop(super_search_base(its, search_request, withContext), "context")
        features == Get(result, "features", <<>>)
        injected == [i \in 1..Len(features) |-> inject_item_links(features[i], tile)]
    IN  IF \E i \in 1..Len(features) : injected[i].kind # "ok"
        THEN TileError
        ELSE Ok(Put(result, "features",
                    [i \in 1..Len(features) |-> injected[i].value]))

\* A search request that names the item id only.
get_item_request_ids_only(item_id, collection_id) ==
    [ids |-> {item_id}, limit |-> 1]

\* PCSearch(ids=[item_id], collections=[collection_id], limit=1)
get_item_request(item_id, collection_id) ==
    [ids |-> {item_id}, collections |-> {collection_id}, limit |-> 1]

\* PCClient.get_item, the part after get_collection has returned
get_item_search(its, item_id, collection_id, tile, withContext) ==
    LET req == get_item_request(item_id, collection_id)
        item_collection == search_base(its, req, tile, withContext)
    IN  IF item_collection.kind # "ok"
        THEN item_collection
        ELSE IF item_collection.value["features"] = <<>>
             THEN NotFoundError(<<"Item ", item_id, " in Collection ",
                                  collection_id, " does not exist.">>)
             ELSE Ok(item_collection.value["features"][1])

\* ------------------------------------------------------------------ state
Running == [kind |-> "running"]

\* One backend operation a call invoked: the operation, what it was asked and
\* what it answered.
BackendCall(op, request, answer) == [op |-> op, request |-> request, answer |-> answer]

\* get_collection that fetches before it looks at the render config.
get_collection_calls_fetch_first(cat, id) ==
    <<BackendCall("get_collection", id, super_get_collection(cat, id))>>

\* The backend operations get_collection invokes.
get_collection_calls(cat, id) ==
    IF IsHidden(id)
    THEN <<>>
    ELSE <<BackendCall("get_collection", id, super_get_collection(cat, id))>>

\* The record of a completed call: the operation, its arguments, its outcome,
\* whether the cache held an entry when the call started, and the backend
\* operations the call invoked, in order.
Response(op, args, outcome, entryAtStart, backend) ==
    [op |-> op, args |-> args, outcome |-> outcome,
     entryAtStart |-> entryAtStart, backend |-> backend]

RequestIds == Ids \cup {"no-such-col"}

SearchRequests ==
    {[limit |-> 1], [limit |-> 10]}
        \cup {[collections |-> {c}, limit |-> 10] : c \in Ids}

\* The render-config table is static data with one entry of each kind: "a"
\* has no entry, "hidden-col" is hidden, "b" is visible with tile links
\* enabled, "c" is visible with nothing enabled.
RenderConfigTable ==
    [id \in {"hidden-col", "b", "c"} |->
        CASE id = "hidden-col" -> RenderConfig(TRUE, TRUE, TRUE)
          [] id = "b" -> RenderConfig(FALSE, TRUE, TRUE)
          [] OTHER -> RenderConfig(FALSE, FALSE, FALSE)]

\* The catalog of the spec's example, {"a", "hidden-col", "b"}; a record comes
\* with or without a links field.
InitialCatalogs ==
    {<<CollectionRecord("a", la), CollectionRecord("hidden-col", TRUE),
       CollectionRecord("b", lb)>> : la \in BOOLEAN, lb \in BOOLEAN}

InitialItems == <<ItemRecord("i1", "a"), ItemRecord("i1", "hidden-col")>>

Init ==
    /\ client = CreatedClient
    /\ COLLECTION_RENDER_CONFIG = RenderConfigTable
    /\ catalog \in InitialCatalogs
    /\ items = InitialItems
    /\ collections_endpoint_cache = EmptyDict
    /\ twinCache = EmptyDict
    /\ pc = [p \in Procs |-> "idle"]
    /\ local = [p \in Procs |-> EmptyDict]
    /\ response = Response("none", <<>>, Running, FALSE, <<>>)
    /\ twinResponse = Running
    /\ fetches = 0
    /\ mutations = 0
    /\ overlapped = FALSE
    /\ failed = FALSE
    /\ returned = {}
    /\ arg = [fn |-> "none"]
    /\ out = Running

\* A request runs in the first free slot.
FreeSlot(p) == pc[p] = "idle" /\ \A q \in Procs : q < p => pc[q] # "idle"

\* The lookup under a key nothing is stored under.
CacheHit_other_key == "/collection" \in DOMAIN collections_endpoint_cache

\* `collections_endpoint_cache["/collections"]` does not raise KeyError
CacheHit == CACHE_KEY \in DOMAIN collections_endpoint_cache

\* ------------------------------------------- all_collections (GET /collections)
\* The call up to its suspension: the cache lookup, and on KeyError the
\* invocation of the backend fetch.
AllCollectionsStart(p, kwargs) ==
    /\ FreeSlot(p)
    /\ overlapped' = (overlapped \/ \E q \in Procs : pc[q] = "all_collections")
    /\ IF CacheHit
       THEN /\ response' = Response("all_collections", <<kwargs>>,
                                    Ok(collections_endpoint_cache[CACHE_KEY]),
                                    TRUE, <<>>)
            /\ twinResponse' = IF CACHE_KEY \in DOMAIN twinCache
                               THEN Ok(twinCache[CACHE_KEY])
                               ELSE Diverged
            /\ returned' = returned \cup {collections_endpoint_cache[CACHE_KEY]["oid"]}
            /\ UNCHANGED <<pc, local, fetches>>
       ELSE /\ fetches < MaxFetches
            /\ pc' = [pc EXCEPT ![p] = "all_collections"]
            /\ local' = [local EXCEPT ![p] =
                            [kwargs |-> kwargs,
                             oid |-> fetches + 1,
                             twin |-> IF CACHE_KEY \in DOMAIN twinCache
                                      THEN Ok(twinCache[CACHE_KEY])
                                      ELSE Running]]
            /\ fetches' = fetches + 1
            /\ UNCHANGED <<response, twinResponse, returned>>
    /\ UNCHANGED <<client, COLLECTION_RENDER_CONFIG, catalog, items,
                   collections_endpoint_cache, twinCache, mutations, failed,
                   arg, out>>

\* A failing fetch that leaves an empty listing in the cache on its way out.
AllCollectionsFail_store_empty(p) ==
    /\ pc[p] = "all_collections"
    /\ response' = Response("all_collections", <<local[p]["kwargs"]>>,
                            BackendError, FALSE,
                            <<BackendCall("all_collections", local[p]["kwargs"],
                                          BackendError)>>)
    /\ twinResponse' = IF local[p]["twin"].kind = "running"
                       THEN BackendError
                       ELSE local[p]["twin"]
    /\ pc' = [pc EXCEPT ![p] = "idle"]
    /\ local' = [local EXCEPT ![p] = EmptyDict]
    /\ failed' = TRUE
    /\ collections_endpoint_cache' = Put(collections_endpoint_cache, CACHE_KEY,
                                       [oid |-> local[p]["oid"],
                                        request |-> local[p]["kwargs"],
                                        collections |-> <<>>, links |-> <<>>])
    /\ UNCHANGED <<client, COLLECTION_RENDER_CONFIG, catalog, items,
                   twinCache, fetches, mutations, overlapped, returned, arg, out>>

\* A failing fetch that clears the cache on its way out.
AllCollectionsFail_evict(p) ==
    /\ pc[p] = "all_collections"
    /\ response' = Response("all_collections", <<local[p]["kwargs"]>>,
                            BackendError, FALSE,
                            <<BackendCall("all_collections", local[p]["kwargs"],
                                          BackendError)>>)
    /\ twinResponse' = IF local[p]["twin"].kind = "running"
                       THEN BackendError
                       ELSE local[p]["twin"]
    /\ pc' = [pc EXCEPT ![p] = "idle"]
    /\ local' = [local EXCEPT ![p] = EmptyDict]
    /\ failed' = TRUE
    /\ collections_endpoint_cache' = EmptyDict
    /\ UNCHANGED <<client, COLLECTION_RENDER_CONFIG, catalog, items,
                   twinCache, fetches, mutations, overlapped, returned, arg, out>>

\* The awaited backend fetch fails: the exception leaves the call.
AllCollectionsFail(p) ==
    /\ pc[p] = "all_collections"
    /\ response' = Response("all_collections", <<local[p]["kwargs"]>>,
                            BackendError, FALSE,
                            <<BackendCall("all_collections", local[p]["kwargs"],
                                          BackendError)>>)
    /\ twinResponse' = IF local[p]["twin"].kind = "running"
                       THEN BackendError
                       ELSE local[p]["twin"]
    /\ pc' = [pc EXCEPT ![p] = "idle"]
    /\ local' = [local EXCEPT ![p] = EmptyDict]
    /\ failed' = TRUE
    /\ UNCHANGED <<client, COLLECTION_RENDER_CONFIG, catalog, items,
                   collections_endpoint_cache, twinCache, fetches, mutations,
                   overlapped, returned, arg, out>>

\* A resumption that stores only when the cache holds no entry yet
\* (setdefault): the first writer wins.
AllCollectionsResume_keep_first(p, tile) ==
    /\ pc[p] = "all_collections"
    /\ LET fetched == super_all_collections(catalog, local[p]["kwargs"], local[p]["oid"])
           collections == modified_collections(fetched, tile)
           twin == IF local[p]["twin"].kind = "running"
                   THEN modified_collections(EraseRaw(fetched), tile)
                   ELSE local[p]["twin"]
       IN  /\ collections_endpoint_cache' =
                  IF collections.kind = "ok" /\ ~CacheHit
                  THEN Put(collections_endpoint_cache, CACHE_KEY, collections.value)
                  ELSE collections_endpoint_cache
           /\ twinCache' =
                  IF local[p]["twin"].kind = "running" /\ twin.kind = "ok"
                  THEN Put(twinCache, CACHE_KEY, twin.value)
                  ELSE twinCache
           /\ response' = Response("all_collections", <<local[p]["kwargs"]>>,
                                   collections, FALSE,
                                   <<BackendCall("all_collections", local[p]["kwargs"],
                                                 Ok(fetched))>>)
           /\ twinResponse' = twin
           /\ returned' = IF collections.kind = "ok"
                          THEN returned \cup {collections.value["oid"]}
                          ELSE returned
           /\ failed' = (failed \/ collections.kind # "ok")
    /\ pc' = [pc EXCEPT ![p] = "idle"]
    /\ local' = [local EXCEPT ![p] = EmptyDict]
    /\ UNCHANGED <<client, COLLECTION_RENDER_CONFIG, catalog, items, fetches, mutations,
                   overlapped, arg, out>>

\* The backend answers from the records stored now and the coroutine resumes:
\* filter, inject, store under the cache key, return.
AllCollectionsResume(p, tile) ==
    /\ pc[p] = "all_collections"
    /\ LET fetched == super_all_collections(catalog, local[p]["kwargs"], local[p]["oid"])
           collections == modified_collections(fetched, tile)
           twin == IF local[p]["twin"].kind = "running"
                   THEN modified_collections(EraseRaw(fetched), tile)
                   ELSE local[p]["twin"]
       IN  /\ collections_endpoint_cache' =
                  IF collections.kind = "ok"
                  THEN Put(collections_endpoint_cache, CACHE_KEY, collections.value)
                  ELSE collections_endpoint_cache
           /\ twinCache' =
                  IF local[p]["twin"].kind = "running" /\ twin.kind = "ok"
                  THEN Put(twinCache, CACHE_KEY, twin.value)
                  ELSE twinCache
           /\ response' = Response("all_collections", <<local[p]["kwargs"]>>,
                                   collections, FALSE,
                                   <<BackendCall("all_collections", local[p]["kwargs"],
                                                 Ok(fetched))>>)
           /\ twinResponse' = twin
           /\ returned' = IF collections.kind = "ok"
                          THEN returned \cup {collections.value["oid"]}
                          ELSE returned
           /\ failed' = (failed \/ collections.kind # "ok")
    /\ pc' = [pc EXCEPT ![p] = "idle"]
    /\ local' = [local EXCEPT ![p] = EmptyDict]
    /\ UNCHANGED <<client, COLLECTION_RENDER_CONFIG, catalog, items, fetches, mutations,
                   overlapped, arg, out>>

\* ------------------------- get_collection (GET /collections/{collectionId})
GetCollection(id, tile) ==
    /\ response' = Response("get_collection", <<id>>,
                            get_collection(catalog, id, tile), FALSE,
                            get_collection_calls(catalog, id))
    /\ twinResponse' = get_collection(EraseCollections(catalog), id, tile)
    /\ UNCHANGED <<client, COLLECTION_RENDER_CONFIG, catalog, items,
                   collections_endpoint_cache, twinCache, pc, local, fetches,
                   mutations, overlapped, failed, returned, arg, out>>

\* ------------------------------------------------ _search_base (POST /search)
SearchBase(search_request, tile, withContext) ==
    /\ response' = Response("_search_base", <<search_request>>,
                            search_base(items, search_request, tile, withContext),
                            FALSE,
                            <<BackendCall("_search_base", search_request,
                                          Ok(super_search_base(items, search_request,
                                                               withContext)))>>)
    /\ twinResponse' = search_base(EraseItems(items), search_request, tile, withContext)
    /\ UNCHANGED <<client, COLLECTION_RENDER_CONFIG, catalog, items,
                   collections_endpoint_cache, twinCache, pc, local, fetches,
                   mutations, overlapped, failed, returned, arg, out>>

\* ------------- get_item (GET /collections/{collectionId}/items/{itemId})
\* The call up to the end of `await self.get_collection(...)`.  get_item calls
\* share no state, so one in flight at a time shows all they do.
GetItemStart(p, item_id, collection_id, tile) ==
    /\ FreeSlot(p)
    /\ \A q \in Procs : pc[q] # "get_item"
    /\ LET found == get_collection(catalog, collection_id, tile)
           twin == get_collection(EraseCollections(catalog), collection_id, tile)
           backend == get_collection_calls(catalog, collection_id)
       IN  IF found.kind = "ok"
           THEN /\ pc' = [pc EXCEPT ![p] = "get_item"]
                /\ local' = [local EXCEPT ![p] =
                                [item_id |-> item_id, collection_id |-> collection_id,
                                 backend |-> backend,
                                 twin |-> IF twin.kind = "ok" THEN Running ELSE twin]]
                /\ UNCHANGED <<response, twinResponse>>
           ELSE /\ response' = Response("get_item", <<item_id, collection_id>>, found,
                                        FALSE, backend)
                /\ twinResponse' = IF twin.kind = "ok" THEN Diverged ELSE twin
                /\ UNCHANGED <<pc, local>>
    /\ UNCHANGED <<client, COLLECTION_RENDER_CONFIG, catalog, items,
                   collections_endpoint_cache, twinCache, fetches, mutations,
                   overlapped, failed, returned, arg, out>>

\* The constrained search and the rest of the call.
GetItemSearch(p, tile, withContext) ==
    /\ pc[p] = "get_item"
    /\ LET req == get_item_request(local[p]["item_id"], local[p]["collection_id"])
       IN  response' = Response("get_item",
                                <<local[p]["item_id"], local[p]["collection_id"]>>,
                                get_item_search(items, local[p]["item_id"],
                                                local[p]["collection_id"], tile,
                                                withContext),
                                FALSE,
                                Append(local[p]["backend"],
                                       BackendCall("_search_base", req,
                                                   Ok(super_search_base(items, req,
                                                                        withContext)))))
    /\ twinResponse' = IF local[p]["twin"].kind = "running"
                       THEN get_item_search(EraseItems(items), local[p]["item_id"],
                                            local[p]["collection_id"], tile, withContext)
                       ELSE local[p]["twin"]
    /\ pc' = [pc EXCEPT ![p] = "idle"]
    /\ local' = [local EXCEPT ![p] = EmptyDict]
    /\ UNCHANGED <<client, COLLECTION_RENDER_CONFIG, catalog, items,
                   collections_endpoint_cache, twinCache, fetches, mutations,
                   overlapped, failed, returned, arg, out>>

\* ------------------------------------------------------------ environment
\* The catalog changes behind the API: collections and items are created and
\* deleted in the backend (deleting a collection deletes its items).
BackendCreateCollection(id, withLinks) ==
    /\ mutations < MaxMutations
    /\ id \notin StoredIds(catalog)
    /\ catalog' = Append(catalog, CollectionRecord(id, withLinks))
    /\ mutations' = mutations + 1
    /\ UNCHANGED <<client, COLLECTION_RENDER_CONFIG, items, collections_endpoint_cache,
                   twinCache, pc, local, response, twinResponse, fetches,
                   overlapped, failed, returned, arg, out>>

BackendDeleteCollection(id) ==
    /\ mutations < MaxMutations
    /\ id \in StoredIds(catalog)
    /\ catalog' = SelectSeq(catalog, LAMBDA c : c["id"] # id)
    /\ items' = SelectSeq(items, LAMBDA i : i["collection"] # id)
    /\ mutations' = mutations + 1
    /\ UNCHANGED <<client, COLLECTION_RENDER_CONFIG, collections_endpoint_cache,
                   twinCache, pc, local, response, twinResponse, fetches,
                   overlapped, failed, returned, arg, out>>

BackendCreateItem(item_id, collection_id) ==
    /\ mutations < MaxMutations
    /\ collection_id \in StoredIds(catalog)
    /\ \A i \in 1..Len(items) :
           ~(items[i]["id"] = item_id /\ items[i]["collection"] = collection_id)
    /\ items' = Append(items, ItemRecord(item_id, collection_id))
    /\ mutations' = mutations + 1
    /\ UNCHANGED <<client, COLLECTION_RENDER_CONFIG, catalog, collections_endpoint_cache,
                   twinCache, pc, local, response, twinResponse, fetches,
                   overlapped, failed, returned, arg, out>>

BackendDeleteItem(item_id, collection_id) ==
    /\ mutations < MaxMutations
    /\ \E i \in 1..Len(items) :
           items[i]["id"] = item_id /\ items[i]["collection"] = collection_id
    /\ items' = SelectSeq(items, LAMBDA i :
                     ~(i["id"] = item_id /\ i["collection"] = collection_id))
    /\ mutations' = mutations + 1
    /\ UNCHANGED <<client, COLLECTION_RENDER_CONFIG, catalog, collections_endpoint_cache,
                   twinCache, pc, local, response, twinResponse, fetches,
                   overlapped, failed, returned, arg, out>>

\* --------------------------------------------------------- specifications
\* The listing endpoint with its cache, under concurrent requests and a
\* changing catalog.
NextListing ==
    \/ \E p \in Procs, kwargs \in Kwargs : AllCollectionsStart(p, kwargs)
    \/ \E p \in Procs : AllCollectionsFail(p)
    \/ \E p \in Procs, tile \in TileBehaviours : AllCollectionsResume(p, tile)
    \/ \E id \in Ids, l \in BOOLEAN : BackendCreateCollection(id, l)
    \/ \E id \in Ids : BackendDeleteCollection(id)

SpecListing == Init /\ [][NextListing]_vars

\* The lookup and search endpoints, under a changing catalog.
NextLookup ==
    \/ \E id \in RequestIds, tile \in TileBehaviours : GetCollection(id, tile)
    \/ \E r \in SearchRequests, tile \in TileBehaviours, c \in BOOLEAN :
           SearchBase(r, tile, c)
    \/ \E p \in Procs, i \in ItemIds, id \in RequestIds, tile \in TileBehaviours :
           GetItemStart(p, i, id, tile)
    \/ \E p \in Procs, tile \in TileBehaviours, c \in BOOLEAN : GetItemSearch(p, tile, c)
    \/ \E id \in Ids, l \in BOOLEAN : BackendCreateCollection(id, l)
    \/ \E id \in Ids : BackendDeleteCollection(id)
    \/ \E i \in ItemIds, id \in Ids : BackendCreateItem(i, id)
    \/ \E i \in ItemIds, id \in Ids : BackendDeleteItem(i, id)

SpecLookup == Init /\ [][NextLookup]_vars

\* The link injectors as functions of their input, over every kind of
\* render-config entry for the record's collection and every shape of links.
SomeLinks(id) ==
    {<<>>, <<SelfLink(id)>>, <<SelfLink(id), RootLink>>, <<RootLink, SelfLink(id)>>,
     <<DescribedByLink(id), RootLink>>}

SomeCollections ==
    UNION {{[id |-> id, type |-> "Collection"]}
               \cup {[id |-> id, type |-> "Collection", links |-> l] : l \in SomeLinks(id)} :
           id \in {"a", "b"}}

\* No entry at all, or one kind of entry for "a" and for the empty id.
SomeRenderConfigTables ==
    {EmptyDict} \cup {[id \in {"a", ""} |-> c] : c \in RenderConfigs}

\* Items of collection "a", of the empty collection id and with no collection
\* field, with and without links.
SomeItems ==
    LET bare == {[id |-> "i1", type |-> "Feature"],
                 [id |-> "i1", type |-> "Feature", collection |-> "a"],
                 [id |-> "i1", type |-> "Feature", collection |-> ""]}
    IN  bare \cup {Put(i, "links", <<SelfLink("i1")>>) : i \in bare}

\* Clients with duplicates within and across their class lists, in and out of
\* order, and with extensions that have and lack conformance_classes.
SomeClients ==
    {PCClient(base, extensions, extra) :
        base \in {<<"core">>, <<"sort", "core">>, <<"core", "collections", "core">>},
        extensions \in {<<>>,
                        <<[name |-> "ContextExtension"]>>,
                        <<[name |-> "QueryExtension",
                           conformance_classes |-> <<"query", "core">>],
                          [name |-> "ContextExtension"],
                          [name |-> "FieldsExtension",
                           conformance_classes |-> <<"fields">>]>>},
        extra \in {<<>>, <<"item-search">>, <<"sort", "core">>}}

\* What the base landing page may hand over: a type, another type, none.
SomeLandingPages ==
    LET page == [id |-> "pc", title |-> "catalog", links |-> <<RootLink>>]
    IN  {page, Put(page, "type", "Catalog"), Put(page, "type", "Collection")}

InitInject ==
    /\ client \in SomeClients
    /\ COLLECTION_RENDER_CONFIG \in SomeRenderConfigTables
    /\ catalog = <<>>
    /\ items = <<>>
    /\ collections_endpoint_cache = EmptyDict
    /\ twinCache = EmptyDict
    /\ pc = [p \in Procs |-> "idle"]
    /\ local = [p \in Procs |-> EmptyDict]
    /\ response = Response("none", <<>>, Running, FALSE, <<>>)
    /\ twinResponse = Running
    /\ fetches = 0
    /\ mutations = 0
    /\ overlapped = FALSE
    /\ failed = FALSE
    /\ returned = {}
    /\ arg = [fn |-> "none"]
    /\ out = Running

InjectCollectionLinks(collection, tile) ==
    /\ arg' = [fn |-> "inject_collection_links", collection |-> collection, tile |-> tile]
    /\ out' = inject_collection_links(collection, tile)
    /\ UNCHANGED <<client, COLLECTION_RENDER_CONFIG, catalog, items,
                   collections_endpoint_cache, twinCache, pc, local, response,
                   twinResponse, fetches, mutations, overlapped, failed, returned>>

\* inject_collection_links applied to a record it has already returned.
InjectCollectionLinksTwice(collection, tile) ==
    /\ arg' = [fn |-> "inject_collection_links twice", collection |-> collection,
               tile |-> tile]
    /\ out' = LET once == inject_collection_links(collection, tile)
              IN  IF once.kind = "ok"
                  THEN inject_collection_links(once.value, tile)
                  ELSE once
    /\ UNCHANGED <<client, COLLECTION_RENDER_CONFIG, catalog, items,
                   collections_endpoint_cache, twinCache, pc, local, response,
                   twinResponse, fetches, mutations, overlapped, failed, returned>>

InjectItemLinks(item, tile) ==
    /\ arg' = [fn |-> "inject_item_links", item |-> item, tile |-> tile]
    /\ out' = inject_item_links(item, tile)
    /\ UNCHANGED <<client, COLLECTION_RENDER_CONFIG, catalog, items,
                   collections_endpoint_cache, twinCache, pc, local, response,
                   twinResponse, fetches, mutations, overlapped, failed, returned>>

\* -------------------------------------- conformance_classes (GET /conformance)
ConformanceClasses ==
    /\ arg' = [fn |-> "conformance_classes", self |-> client]
    /\ out' = Ok(conformance_classes(client).return)
    /\ client' = conformance_classes(client).self
    /\ UNCHANGED <<COLLECTION_RENDER_CONFIG, catalog, items,
                   collections_endpoint_cache, twinCache, pc, local, response,
                   twinResponse, fetches, mutations, overlapped, failed, returned>>

\* ------------------------------------------------------ landing_page (GET /)
\* landing is what the awaited base implementation returned.
LandingPage(landing) ==
    /\ arg' = [fn |-> "landing_page", landing |-> landing]
    /\ out' = landing_page(landing)
    /\ UNCHANGED <<client, COLLECTION_RENDER_CONFIG, catalog, items,
                   collections_endpoint_cache, twinCache, pc, local, response,
                   twinResponse, fetches, mutations, overlapped, failed, returned>>

NextInject ==
    \/ \E collection \in SomeCollections, tile \in TileBehaviours :
           InjectCollectionLinks(collection, tile)
    \/ \E collection \in SomeCollections, tile \in TileBehaviours :
           InjectCollectionLinksTwice(collection, tile)
    \/ \E item \in SomeItems, tile \in TileBehaviours : InjectItemLinks(item, tile)
    \/ ConformanceClasses
    \/ \E landing \in SomeLandingPages : LandingPage(landing)

SpecInject == InitInject /\ [][NextInject]_vars

\* The endpoints that pass the cache by, next to the listing endpoint that
\* fills it, while the backend deletes a collection the cache lists; one
\* suspended call at a time.
NextBypass ==
    \/ AllCollectionsStart(1, "req1")
    \/ \E tile \in TileBehaviours : AllCollectionsResume(1, tile)
    \/ BackendDeleteCollection("a")
    \/ \E id \in {"a", "hidden-col", "b"}, tile \in TileBehaviours :
           GetCollection(id, tile)
    \/ \E tile \in TileBehaviours, c \in BOOLEAN : SearchBase([limit |-> 10], tile, c)
    \/ \E id \in {"a", "hidden-col"}, tile \in TileBehaviours :
           GetItemStart(1, "i1", id, tile)
    \/ \E tile \in TileBehaviours, c \in BOOLEAN : GetItemSearch(1, tile, c)
    \/ ConformanceClasses
    \/ \E landing \in SomeLandingPages : LandingPage(landing)

SpecBypass == Init /\ [][NextBypass]_vars

\* The whole client.
Next == NextListing \/ NextLookup \/ NextBypass

Spec == Init /\ [][Next]_vars

\* ================================================================ claims
HiddenIds ==
    {id \in DOMAIN COLLECTION_RENDER_CONFIG : COLLECTION_RENDER_CONFIG[id].hidden = TRUE}

ListedIds(collections) ==
    {collections["collections"][i]["id"] : i \in 1..Len(collections["collections"])}

ListingReturned == response.op = "all_collections" /\ response.outcome.kind = "ok"

\* C1: no collection whose render config has hidden=true is in the list an
\* all_collections call returns (on a miss or on a hit, alone or interleaved
\* with other calls), nor in the value the collections cache holds.
C1_HiddenNeverListed ==
    /\ ListingReturned => ListedIds(response.outcome.value) \cap HiddenIds = {}
    /\ CacheHit => ListedIds(collections_endpoint_cache[CACHE_KEY]) \cap HiddenIds = {}

\* C1 witness: with the hidden collection stored all along, interleaved calls
\* have filled the cache and a later call was answered from it.
C1_Witness ==
    /\ mutations = 0
    /\ "hidden-col" \in StoredIds(catalog)
    /\ overlapped
    /\ CacheHit
    /\ ListingReturned
    /\ response.entryAtStart

\* C2: get_collection(id) fails with NotFound carrying exactly
\* "No collection with id '{id}' found!" when id is hidden and when the
\* backend raises NotFound for an id it does not store; the backend's own
\* message is discarded.
C2_NotFoundMessage ==
    ( /\ response.op = "get_collection"
      /\ \/ response.args[1] \in HiddenIds
         \/ \E i \in 1..Len(response.backend) :
                response.backend[i].answer.kind = "NotFoundError" )
    => response.outcome =
           [kind |-> "NotFoundError",
            message |-> <<"No collection with id '", response.args[1], "' found!">>]

\* C2 witness: the backend raised NotFound, with its own message, for "c",
\* which is not stored and not hidden, and the call failed with NotFound.
C2_Witness ==
    /\ response.op = "get_collection"
    /\ response.args = <<"c">>
    /\ Len(response.backend) = 1
    /\ response.backend[1].answer.kind = "NotFoundError"
    /\ response.backend[1].answer.message = <<"Collection ", "c", " does not exist.">>
    /\ response.outcome.kind = "NotFoundError"

\* C3: hidden collections are indistinguishable from absent ones: every call
\* that returns or fails with NotFound has the same outcome in the catalog
\* where the hidden collections and their items are stored as in the twin
\* catalog where they are not.
C3_HiddenIndistinguishable ==
    (response.op # "none" /\ response.outcome.kind \in {"ok", "NotFoundError"})
    => response.outcome = twinResponse

\* C5: get_item with a hidden collection_id fails with NotFound carrying the
\* collection-not-found message, never the item-not-found message.
C5_GetItemHiddenCollection ==
    (response.op = "get_item" /\ response.args[2] \in HiddenIds)
    => response.outcome =
           [kind |-> "NotFoundError",
            message |-> <<"No collection with id '", response.args[2], "' found!">>]

\* C5 witness: get_item was called for an item that is stored in the hidden
\* collection.
C5_Witness ==
    /\ response.op = "get_item"
    /\ response.args = <<"i1", "hidden-col">>
    /\ \E i \in 1..Len(items) :
           items[i]["id"] = "i1" /\ items[i]["collection"] = "hidden-col"
    /\ "hidden-col" \in StoredIds(catalog)

ItemNotFound(item_id, collection_id) ==
    [kind |-> "NotFoundError",
     message |-> <<"Item ", item_id, " in Collection ", collection_id,
                   " does not exist.">>]

\* C6: for a collection that exists and is visible, get_item fails with
\* NotFound "Item {item_id} in Collection {collection_id} does not exist."
\* exactly when the constrained search (ids=[item_id],
\* collections=[collection_id], limit=1) returns zero features; otherwise it
\* returns the first feature of that search, item links injected (unless the
\* tile-link builder fails).
C6_GetItemOutcome ==
    ( /\ response.op = "get_item"
      /\ response.backend # <<>>
      /\ response.backend[1].answer.kind = "ok" )
    => LET item_id == response.args[1]
           collection_id == response.args[2]
       IN  IF Len(response.backend) = 1
           THEN response.outcome.kind \notin {"ok", "NotFoundError"}
           ELSE LET search == response.backend[2]
                    features == search.answer.value["features"]
                IN  /\ search.request =
                           [ids |-> {item_id}, collections |-> {collection_id},
                            limit |-> 1]
                    /\ features = <<>> <=>
                           response.outcome = ItemNotFound(item_id, collection_id)
                    /\ features # <<>> =>
                           \E tile \in TileBehaviours :
                               response.outcome = inject_item_links(features[1], tile)

\* C6 witness: get_item on the stored, visible collection "b", which holds
\* no item "i1", searched and failed with the item-not-found message.
C6_Witness ==
    /\ response.op = "get_item"
    /\ response.args = <<"i1", "b">>
    /\ Len(response.backend) = 2
    /\ response.backend[1].answer.kind = "ok"
    /\ response.backend[2].answer.value["features"] = <<>>
    /\ response.outcome = ItemNotFound("i1", "b")

\* C10: the response of _search_base has no "context" entry; its features are
\* the backend search's features, same count and order, each passed through
\* inject_item_links once; every other field of the backend response is
\* carried over unchanged.
C10_SearchPostProcessing ==
    (response.op = "_search_base" /\ response.outcome.kind = "ok")
    => LET raw == response.backend[1].answer.value
           result == response.outcome.value
       IN  /\ response.backend[1].request = response.args[1]
           /\ DOMAIN result = DOMAIN raw \ {"context"}
           /\ Len(result["features"]) = Len(raw["features"])
           /\ \E tile \in TileBehaviours :
                  \A i \in 1..Len(raw["features"]) :
                      Ok(result["features"][i]) =
                          inject_item_links(raw["features"][i], tile)
           /\ \A k \in DOMAIN raw \ {"context", "features"} : result[k] = raw[k]

\* C10 witness: a search whose backend response carried a context returned
\* two features, the second with a tile link injected.
C10_Witness ==
    /\ response.op = "_search_base"
    /\ "context" \in DOMAIN response.backend[1].answer.value
    /\ response.outcome.kind = "ok"
    /\ Len(response.outcome.value["features"]) = 2
    /\ Len(response.outcome.value["features"][2]["links"]) = 2

\* C4: an all_collections call that starts when the cache entry exists
\* returns the very object the cache holds and invokes no backend fetch,
\* whatever its arguments and whatever the backend stores by then; so over
\* calls made one after another, none failing, there is exactly one backend
\* list fetch and every call returns the same object.
C4_CachedListing ==
    /\ [][\A p \in Procs, kwargs \in Kwargs :
             ( /\ CACHE_KEY \in DOMAIN collections_endpoint_cache
               /\ pc[p] = "idle"
               /\ AllCollectionsStart(p, kwargs) )
             => /\ response'.outcome = Ok(collections_endpoint_cache[CACHE_KEY])
                /\ response'.args = <<kwargs>>
                /\ response'.backend = <<>>
                /\ fetches' = fetches
                /\ pc' = pc
                /\ collections_endpoint_cache' = collections_endpoint_cache]_vars
    /\ []((~overlapped /\ ~failed) =>
              /\ fetches <= 1
              /\ Cardinality(returned) <= 1
              /\ returned # {} => fetches = 1)

\* C4 witness: after one fetch and no overlap or failure, a call with other
\* arguments than the cached response was built for was answered from the
\* cache although the catalog no longer stores what the cache lists.
C4_Witness ==
    /\ ~overlapped
    /\ ~failed
    /\ fetches = 1
    /\ ListingReturned
    /\ response.entryAtStart
    /\ response.outcome.value["request"] # response.args[1]
    /\ ListedIds(response.outcome.value) # StoredIds(catalog) \ HiddenIds

HasDescribedByLast(collection) ==
    /\ "links" \in DOMAIN collection
    /\ collection["links"] # <<>>
    /\ LET last == collection["links"][Len(collection["links"])]
       IN  /\ last.rel = "describedby"
           /\ last.type = "text/html"
           /\ last.href = <<"https://planetarycomputer.microsoft.com", collection["id"]>>

\* C7: every collection get_collection returns, and every collection in an
\* all_collections response, has as the last element of its links a link with
\* rel "describedby", type "text/html" and an href made from the collection
\* id, also when the backend's record has no links field.
C7_DescribedByLast ==
    /\ (response.op = "get_collection" /\ response.outcome.kind = "ok")
           => HasDescribedByLast(response.outcome.value)
    /\ ListingReturned =>
           \A i \in 1..Len(response.outcome.value["collections"]) :
               HasDescribedByLast(response.outcome.value["collections"][i])

\* C9: on a cache miss all_collections returns exactly the backend's
\* collections that are not hidden (none without a render config or with
\* hidden=false is dropped), each once, in the backend's order, each with
\* links injected.
C9_ListingOnMiss ==
    (ListingReturned /\ ~response.entryAtStart)
    => LET listed == response.outcome.value["collections"]
           fetched == response.backend[1].answer.value["collections"]
           expected == SelectSeq(fetched, LAMBDA c : c["id"] \notin HiddenIds)
       IN  /\ Len(response.backend) = 1
           /\ Len(listed) = Len(expected)
           /\ \E tile \in TileBehaviours :
                  \A i \in 1..Len(expected) :
                      Ok(listed[i]) = inject_collection_links(expected[i], tile)

\* C9 witness: over the stored catalog [a, hidden-col, b] a miss returned
\* [a, b].
C9_Witness ==
    /\ ListingReturned
    /\ ~response.entryAtStart
    /\ Len(response.backend[1].answer.value["collections"]) = 3
    /\ response.backend[1].answer.value["collections"][2]["id"] = "hidden-col"
    /\ Len(response.outcome.value["collections"]) = 2
    /\ response.outcome.value["collections"][1]["id"] = "a"
    /\ response.outcome.value["collections"][2]["id"] = "b"

\* s is a subsequence of t: the elements of s occur in t in the same order
RECURSIVE IsSubsequence(_, _)
IsSubsequence(s, t) ==
    IF s = <<>> THEN TRUE
    ELSE IF t = <<>> THEN FALSE
    ELSE IF Head(s) = Head(t) THEN IsSubsequence(Tail(s), Tail(t))
    ELSE IsSubsequence(s, Tail(t))

CollectionLinksEnabled(id) ==
    /\ id \in DOMAIN COLLECTION_RENDER_CONFIG
    /\ COLLECTION_RENDER_CONFIG[id].should_add_collection_links = TRUE

\* C8: inject_collection_links is additive only: on a record with a links
\* sequence, the links afterwards number the links before + 1 (describedby)
\* + the tile links added when the render config has
\* should_add_collection_links, and the links that were there are all still
\* there in their original relative order.
C8_InjectionAdditive ==
    ( /\ arg.fn = "inject_collection_links"
      /\ "links" \in DOMAIN arg.collection
      /\ out.kind = "ok" )
    => LET before == arg.collection["links"]
           after == out.value["links"]
           tileLinks ==
               IF CollectionLinksEnabled(arg.collection["id"])
               THEN Len(TileInfo_inject_collection(arg.collection, arg.tile)["links"])
                        - Len(before)
               ELSE 0
       IN  /\ Len(after) = Len(before) + 1 + tileLinks
           /\ IsSubsequence(before, after)
           /\ DOMAIN out.value = DOMAIN arg.collection
           /\ \A k \in DOMAIN arg.collection \ {"links"} : out.value[k] = arg.collection[k]

\* C8 witness: a record with two links and tile links enabled came back with
\* four.
C8_Witness ==
    /\ arg.fn = "inject_collection_links"
    /\ "links" \in DOMAIN arg.collection
    /\ Len(arg.collection["links"]) = 2
    /\ CollectionLinksEnabled(arg.collection["id"])
    /\ out.kind = "ok"
    /\ Len(out.value["links"]) = 4

\* The item's collection has a render config that enables item links.
ItemLinksEnabled(item) ==
    /\ "collection" \in DOMAIN item
    /\ item["collection"] # ""
    /\ item["collection"] \in DOMAIN COLLECTION_RENDER_CONFIG
    /\ COLLECTION_RENDER_CONFIG[item["collection"]].should_add_item_links = TRUE

\* C11: inject_item_links returns the item as it was unless the item has a
\* non-empty collection field whose render config exists and has
\* should_add_item_links, so no link (such as describedby) is added
\* unconditionally; with should_add_item_links the outcome is the tile-link
\* builder's and nothing more, whether the collection is hidden or not.
C11_ItemInjectionConditional ==
    arg.fn = "inject_item_links"
    => /\ ~ItemLinksEnabled(arg.item) => out = Ok(arg.item)
       /\ ItemLinksEnabled(arg.item) =>
              out = IF arg.tile.ok
                    THEN Ok(TileInfo_inject_item(arg.item, arg.tile))
                    ELSE TileError

\* C11 witness: an item with links, of a collection whose render config is
\* hidden and enables collection links but not item links, came back as it
\* was.
C11_Witness ==
    /\ arg.fn = "inject_item_links"
    /\ "links" \in DOMAIN arg.item
    /\ Get(arg.item, "collection", "") = "a"
    /\ "a" \in DOMAIN COLLECTION_RENDER_CONFIG
    /\ COLLECTION_RENDER_CONFIG["a"] = RenderConfig(TRUE, TRUE, FALSE)
    /\ out = Ok(arg.item)

\* The classes a client declares: base, extensions that have
\* conformance_classes, extra.
DeclaredClasses(self) ==
    ToSet(self.base_conformance_classes)
        \cup UNION {ToSet(self.extensions[i]["conformance_classes"]) :
                       i \in {j \in 1..Len(self.extensions) :
                                 "conformance_classes" \in DOMAIN self.extensions[j]}}
        \cup ToSet(self.extra_conformance_classes)

\* C12: conformance_classes returns the ascending, duplicate-free list of the
\* union of the base classes, the classes of every extension that has
\* conformance_classes and the extra classes, and leaves the client's
\* base_conformance_classes (and the rest of the client) as they were.
C12_ConformanceClasses ==
    arg.fn = "conformance_classes"
    => /\ out.kind = "ok"
       /\ ToSet(out.value) = DeclaredClasses(arg.self)
       /\ \A i, j \in 1..Len(out.value) : i < j => StrLess(out.value[i], out.value[j])
       /\ client = arg.self

\* C12 witness: a client whose lists are out of order and repeat "core", with
\* an extension that has no conformance_classes, returned five classes.
C12_Witness ==
    /\ arg.fn = "conformance_classes"
    /\ arg.self.base_conformance_classes = <<"core", "collections", "core">>
    /\ Len(arg.self.extensions) = 3
    /\ arg.self.extra_conformance_classes = <<"sort", "core">>
    /\ out = Ok(<<"collections", "core", "fields", "query", "sort">>)

\* C13: landing_page returns a response whose type is "Catalog" whatever type,
\* or none, the base implementation produced, with every other field as the
\* base implementation produced it.
C13_LandingPageType ==
    arg.fn = "landing_page"
    => /\ out.kind = "ok"
       /\ DOMAIN out.value = DOMAIN arg.landing \cup {"type"}
       /\ out.value["type"] = "Catalog"
       /\ \A k \in DOMAIN arg.landing \ {"type"} : out.value[k] = arg.landing[k]

\* C13 witness: the base implementation produced the type "Collection".
C13_Witness ==
    /\ arg.fn = "landing_page"
    /\ "type" \in DOMAIN arg.landing
    /\ arg.landing["type"] = "Collection"
    /\ out.kind = "ok"
    /\ out.value["type"] = "Catalog"

\* C19: inject_collection_links applied twice to a record with a links
\* sequence and no tile links enabled leaves two describedby links at the end
\* of links: each application adds exactly one, whether or not an equal link
\* is there already.
C19_InjectionNotIdempotent ==
    ( /\ arg.fn = "inject_collection_links twice"
      /\ "links" \in DOMAIN arg.collection
      /\ ~CollectionLinksEnabled(arg.collection["id"]) )
    => /\ out.kind = "ok"
       /\ out.value["links"] =
              arg.collection["links"]
                  \o <<DescribedByLink(arg.collection["id"]),
                       DescribedByLink(arg.collection["id"])>>
       /\ \A k \in DOMAIN arg.collection \ {"links"} : out.value[k] = arg.collection[k]

\* C19 witness: a record with two links, of a collection with a render config
\* that does not enable collection links, came back with four.
C19_Witness ==
    /\ arg.fn = "inject_collection_links twice"
    /\ "links" \in DOMAIN arg.collection
    /\ Len(arg.collection["links"]) = 2
    /\ arg.collection["id"] \in DOMAIN COLLECTION_RENDER_CONFIG
    /\ ~CollectionLinksEnabled(arg.collection["id"])
    /\ out.kind = "ok"
    /\ Len(out.value["links"]) = 4

\* The step in which the all_collections call in slot p leaves its awaited
\* fetch and ends.
MissCompletes(p) == pc[p] = "all_collections" /\ pc'[p] = "idle"

\* C14: there is no single-flight protection: all_collections calls that each
\* found the cache empty before any of them stored each make their own
\* backend fetch, each return the object computed from their own fetch, and
\* each store it, overwriting an entry already there, so the cache holds the
\* value of the call that stored last.
C14_NoSingleFlight ==
    /\ [](\A p, q \in Procs :
              (p # q /\ pc[p] = "all_collections" /\ pc[q] = "all_collections")
              => /\ local[p]["oid"] # local[q]["oid"]
                 /\ local[p]["oid"] <= fetches
                 /\ local[q]["oid"] <= fetches)
    /\ []((ListingReturned /\ ~response.entryAtStart)
              => /\ Len(response.backend) = 1
                 /\ response.backend[1].op = "all_collections"
                 /\ response.outcome.value["oid"] =
                        response.backend[1].answer.value["oid"])
    /\ [][\A p \in Procs :
              (MissCompletes(p) /\ response'.outcome.kind = "ok")
              => /\ response'.outcome.value["oid"] = local[p]["oid"]
                 /\ collections_endpoint_cache' =
                        Put(collections_endpoint_cache, CACHE_KEY,
                            response'.outcome.value)]_vars

\* C14 witness: two calls missed together and fetched twice; the second
\* stored and returned its object, then the first stored its own over it and
\* returned it.
C14_Witness ==
    /\ overlapped
    /\ fetches = 2
    /\ returned = {1, 2}
    /\ ListingReturned
    /\ ~response.entryAtStart
    /\ response.outcome.value["oid"] = 1
    /\ CacheHit
    /\ collections_endpoint_cache[CACHE_KEY] = response.outcome.value

C18_SingleEntryNeverRemoved ==
    /\ [](DOMAIN collections_endpoint_cache \subseteq {"/collections"})
    /\ [][CacheHit => CACHE_KEY \in DOMAIN collections_endpoint_cache']_vars
    /\ [][collections_endpoint_cache' # collections_endpoint_cache
              => /\ \E p \in Procs : MissCompletes(p)
                 /\ response'.outcome.kind = "ok"
                 /\ collections_endpoint_cache' =
                        [k \in {"/collections"} |-> response'.outcome.value]]_vars

\* C18 witness: the catalog changed after the entry was stored, and a later
\* call still found the entry, which lists what the catalog no longer stores.
C18_Witness ==
    /\ mutations > 0
    /\ CacheHit
    /\ ListingReturned
    /\ response.entryAtStart
    /\ response.outcome.value = collections_endpoint_cache[CACHE_KEY]
    /\ ListedIds(collections_endpoint_cache[CACHE_KEY]) # StoredIds(catalog) \ HiddenIds

\* The record is a backend record passed through inject_collection_links
\* exactly once.
InjectedOnce(collection) ==
    \E withLinks \in BOOLEAN, tile \in TileBehaviours :
        Ok(collection) =
            inject_collection_links(CollectionRecord(collection["id"], withLinks), tile)

\* C20: links do not accumulate over repeated listing: every collection in
\* every response all_collections returns, on a miss or a hit, and in the
\* cache is a backend record injected exactly once, and a response returned
\* from the cache is the cached object as it was stored.
C20_NoLinkAccumulation ==
    /\ ListingReturned =>
           \A i \in 1..Len(response.outcome.value["collections"]) :
               InjectedOnce(response.outcome.value["collections"][i])
    /\ CacheHit =>
           \A i \in 1..Len(collections_endpoint_cache[CACHE_KEY]["collections"]) :
               InjectedOnce(collections_endpoint_cache[CACHE_KEY]["collections"][i])
    /\ (ListingReturned /\ CacheHit /\ response.outcome.value["oid"] =
                                          collections_endpoint_cache[CACHE_KEY]["oid"])
           => response.outcome.value = collections_endpoint_cache[CACHE_KEY]

\* C20 witness: after two fetches by interleaved calls, a further call was
\* answered from the cache, and its collection "b" has its two stored links,
\* one tile link and one describedby link.
C20_Witness ==
    /\ fetches = 2
    /\ returned = {1, 2}
    /\ ListingReturned
    /\ response.entryAtStart
    /\ \E i \in 1..Len(response.outcome.value["collections"]) :
           LET c == response.outcome.value["collections"][i]
           IN  /\ c["id"] = "b"
               /\ "links" \in DOMAIN c
               /\ Len(c["links"]) = 4
               /\ Cardinality({j \in 1..4 : c["links"][j].rel = "describedby"}) = 1

\* C16: for a collection id whose render config has hidden=true no backend
\* operation is invoked: get_collection and get_item end with NotFound
\* without a backend fetch or search; and get_item searches only after its
\* get_collection has fetched the collection and returned.
C16_HiddenNoBackendCall ==
    /\ (response.op \in {"get_collection", "get_item"}
            /\ response.args[Len(response.args)] \in HiddenIds)
           => /\ response.backend = <<>>
              /\ response.outcome.kind = "NotFoundError"
    /\ response.op = "get_item" =>
           /\ Len(response.backend) <= 2
           /\ \A i \in 1..Len(response.backend) :
                  response.backend[i].op = <<"get_collection", "_search_base">>[i]
           /\ Len(response.backend) = 2 =>
                  /\ response.backend[1].request = response.args[2]
                  /\ response.backend[1].answer.kind = "ok"
    /\ \A p \in Procs :
           pc[p] = "get_item" =>
               /\ local[p]["collection_id"] \notin HiddenIds
               /\ Len(local[p]["backend"]) = 1
               /\ local[p]["backend"][1].op = "get_collection"
               /\ local[p]["backend"][1].answer.kind = "ok"

\* C16 witness: get_item for an item stored in the stored hidden collection
\* ended with no backend operation invoked.
C16_Witness ==
    /\ response.op = "get_item"
    /\ response.args = <<"i1", "hidden-col">>
    /\ "hidden-col" \in StoredIds(catalog)
    /\ \E i \in 1..Len(items) :
           items[i]["id"] = "i1" /\ items[i]["collection"] = "hidden-col"
    /\ response.backend = <<>>
    /\ response.outcome.kind = "NotFoundError"

\* What get_collection answers from the records the backend stores now.
FreshCollection(id, tile) ==
    IF id \in HiddenIds \/ id \notin StoredIds(catalog)
    THEN [kind |-> "NotFoundError",
          message |-> <<"No collection with id '", id, "' found!">>]
    ELSE inject_collection_links(
             CHOOSE c \in {catalog[i] : i \in 1..Len(catalog)} : c["id"] = id, tile)

\* C17: get_collection, get_item, _search_base, landing_page and
\* conformance_classes neither read nor write the collections cache: the cache
\* changes only in the step in which a missing all_collections call stores,
\* and what get_collection answers is made from the records the backend
\* stores at the call, also when the cache lists that collection.
C17_CacheBypassed ==
    /\ [][collections_endpoint_cache' # collections_endpoint_cache
              => \E p \in Procs : MissCompletes(p)]_vars
    /\ [][response'.op = "get_collection" =>
              \A tile \in TileBehaviours :
                  GetCollection(response'.args[1], tile)
                  => response'.outcome = FreshCollection(response'.args[1], tile)]_vars

\* C17 witness: the cache lists collection "a", the backend has deleted it
\* since, and get_collection("a") ended with NotFound, the cache still
\* listing it.
C17_Witness ==
    /\ CacheHit
    /\ "a" \in ListedIds(collections_endpoint_cache[CACHE_KEY])
    /\ "a" \notin StoredIds(catalog)
    /\ response.op = "get_collection"
    /\ response.args = <<"a">>
    /\ response.outcome.kind = "NotFoundError"

====
